---------------------------- MODULE Spec2Model ----------------------------
(***************************************************************************)
(* PhotoShare (FastAPI + SQLAlchemy): the repository functions and route   *)
(* handlers behind tags, likes, roles, search and authentication, as a     *)
(* state machine over the database tables.                                 *)
(*                                                                         *)
(* Strings the code inspects character by character (who_liked, e-mails,   *)
(* the comma separated tag form field) are sequences of one-character      *)
(* strings, so that Python's `in`, str.replace, str.split and str.strip    *)
(* are computed as Python computes them.                                   *)
(***************************************************************************)
EXTENDS Integers, Sequences, FiniteSets, TLC

VARIABLES
    users,      \* table users: id -> row
    photos,     \* table photos: id -> row (tags: the photo_2_tag rows, in order)
    tags,       \* table tags: id -> row
    has_liked,  \* history: photo id -> ids of the users whose like was accepted and not taken back
    issued,     \* history: the refresh tokens handed out so far (clients keep them)
    comments,   \* the comments table: comment id -> row
    blacklist,  \* the access tokens logout has blacklisted
    last        \* the last call: its operation, arguments and outcome

vars == <<users, photos, tags, has_liked, issued, comments, blacklist, last>>

(***************************************************************************)
(* Python string operations                                                *)
(***************************************************************************)

\* Python `sub in s` on str: sub occurs as a contiguous substring of s.
Contains(s, sub) ==
    \E i \in 0..(Len(s) - Len(sub)) : SubSeq(s, i + 1, i + Len(sub)) = sub

RECURSIVE Replace(_, _, _)
\* Python s.replace(old, new): every non-overlapping occurrence, left to right.
Replace(s, old, new) ==
    IF Len(old) = 0 \/ Len(s) < Len(old) THEN s
    ELSE IF SubSeq(s, 1, Len(old)) = old
         THEN new \o Replace(SubSeq(s, Len(old) + 1, Len(s)), old, new)
         ELSE <<Head(s)>> \o Replace(Tail(s), old, new)

RECURSIVE Split(_, _)
\* Python s.split(sep) for a one-character sep: the pieces between separators.
Split(s, sep) ==
    IF \A i \in 1..Len(s) : s[i] # sep THEN <<s>>
    ELSE LET k == CHOOSE i \in 1..Len(s) :
                      s[i] = sep /\ \A j \in 1..(i - 1) : s[j] # sep
         IN  <<SubSeq(s, 1, k - 1)>> \o Split(SubSeq(s, k + 1, Len(s)), sep)

RECURSIVE Strip(_)
\* Python s.strip(): leading and trailing whitespace removed.
Strip(s) ==
    IF s = <<>> THEN s
    ELSE IF Head(s) = " " THEN Strip(Tail(s))
    ELSE IF s[Len(s)] = " " THEN Strip(SubSeq(s, 1, Len(s) - 1))
    ELSE s

Range(s) == {s[i] : i \in DOMAIN s}

(***************************************************************************)
(* Rows                                                                    *)
(***************************************************************************)

\* class Roles
RoleAdmin == "Administrator"
RoleModerator == "Moderator"
RoleUser == "User"
Roles == {RoleAdmin, RoleModerator, RoleUser}

\* None where a string is expected, where a row id is expected (ids start at
\* 1), and where a token is expected.
None == "None"
NoId == 0
NoToken == <<>>

\* A row of users.
UserRow(email, username, password, roles) ==
    [email |-> email, username |-> username, password |-> password,
     roles |-> roles, refresh_token |-> NoToken,
     confirmed_email |-> FALSE, is_banned |-> FALSE]

\* A nullable URL column that is NULL.
NoUrl == <<>>

\* A row of photos, as create_user_photo stores it.
PhotoRow(user_id, description, tag_ids, created_at) ==
    [user_id |-> user_id, description |-> description, tags |-> tag_ids,
     created_at |-> created_at, likes |-> 0, who_liked |-> <<>>,
     image_url |-> <<"image", created_at>>, image_transform |-> NoUrl,
     qr_transform |-> NoUrl]

\* The place of a row that db.delete removed: ids are not given out again.
DeletedPhoto == [PhotoRow(NoId, "", <<>>, NoId) EXCEPT !.image_url = NoUrl]

\* The ids db.query(Photo) finds.
StoredPhotos == {p \in DOMAIN photos : photos[p] # DeletedPhoto}

\* A row of comments.
CommentRow(text, user_id, photo_id) ==
    [text |-> text, user_id |-> user_id, photo_id |-> photo_id]

\* The place of a comment that db.delete removed.
DeletedComment == CommentRow("", NoId, NoId)

\* The ids db.query(Comment) finds.
StoredComments == {c \in DOMAIN comments : comments[c] # DeletedComment}

\* A row of tags.
TagRow(title, user_id) == [title |-> title, user_id |-> user_id]

\* The place of a tag that db.delete removed.
DeletedTag == TagRow(<<>>, NoId)

\* The ids db.query(Tag) finds in a tags table.
StoredTagRows(table) == {i \in DOMAIN table : table[i] # DeletedTag}

\* db.query(User).filter(User.email == email).first(): the user's id, or None.
get_user_by_email(email) ==
    IF \E u \in DOMAIN users : users[u].email = email
    THEN CHOOSE u \in DOMAIN users : users[u].email = email
    ELSE NoId

\* RoleChecker.__call__: the caller's role is one of the allowed ones.
RoleChecker(allowed_roles, current_user) ==
    users[current_user].roles \in allowed_roles

allowed_roles_to_block == {RoleAdmin}
allowed_roles_to_change_role == {RoleAdmin}
allowed_roles_to_delete_like == {RoleAdmin, RoleModerator}

\* An unhandled Python exception (AttributeError on None, IndexError): FastAPI
\* answers 500 and the request's session is closed with nothing committed.
Crash(op, args) ==
    [op |-> op, args |-> args, result |-> "exception", value |-> NoId,
     status |-> 500, detail |-> "Internal Server Error"]

\* A handler's answer: what the repository function returned (result, value)
\* and the route's status code and detail.
Reply(op, args, result, status, detail) ==
    [op |-> op, args |-> args, result |-> result, value |-> NoId,
     status |-> status, detail |-> detail]

ReplyWith(op, args, value, status) ==
    [op |-> op, args |-> args, result |-> "value", value |-> value,
     status |-> status, detail |-> ""]

(***************************************************************************)
(* Likes: put_a_like, dislike, delete_like_admin_moder                     *)
(***************************************************************************)

\* E-mail addresses: b@x is a substring of ab@x and of b@xy.
EmailB == <<"b", "@", "x">>
EmailAB == <<"a", "b", "@", "x">>
EmailBXY == <<"b", "@", "x", "y">>
EmailC == <<"c", "@", "x">>
Emails == {EmailB, EmailAB, EmailBXY, EmailC}

\* f"{email},"
Entry(email) == email \o <<",">>

\* Guards that keep the like counter and the who_liked text finite.
MaxWhoLiked == 10
MaxLikes == 3
MaxUnlikes == 2

\* put_a_like, line 136: current_user.email in photo.who_liked
AlreadyLiked(email, who_liked) == Contains(who_liked, email)

\* dislike line 159 / delete_like_admin_moder line 182: email in photo.who_liked
LikeRecorded(email, who_liked) == Contains(who_liked, email)

\* dislike line 161 / delete_like_admin_moder line 186
StripLike(email, who_liked) == Replace(who_liked, Entry(email), <<>>)

\* users.put_a_like behind the route PATCH /users/like.
put_like(u, p) ==
    /\ u \in DOMAIN users
    /\ IF p \notin StoredPhotos
       THEN /\ last' = Crash("put_a_like", <<u, p>>)
            /\ UNCHANGED <<photos, has_liked>>
       ELSE IF ~AlreadyLiked(users[u].email, photos[p].who_liked)
       THEN /\ Len(photos[p].who_liked) + Len(Entry(users[u].email)) <= MaxWhoLiked
            /\ photos[p].likes < MaxLikes
            /\ photos' = [photos EXCEPT
                   ![p].likes = @ + 1,
                   ![p].who_liked = @ \o Entry(users[u].email)]
            /\ has_liked' = [has_liked EXCEPT ![p] = @ \cup {u}]
            /\ last' = Reply("put_a_like", <<u, p>>, "OK", 200,
                             "You have successfully liked a photo")
       ELSE /\ last' = Reply("put_a_like", <<u, p>>, "NOT OK", 403,
                             "You have already liked this photo")
            /\ UNCHANGED <<photos, has_liked>>
    /\ UNCHANGED <<users, tags, issued, comments, blacklist>>

\* users.dislike behind the route PATCH /users/remove_like.
remove_like(u, p) ==
    /\ u \in DOMAIN users
    /\ IF p \notin StoredPhotos
       THEN /\ last' = Crash("dislike", <<u, p>>)
            /\ UNCHANGED <<photos, has_liked>>
       ELSE IF LikeRecorded(users[u].email, photos[p].who_liked)
       THEN /\ photos[p].likes > -MaxUnlikes
            /\ photos' = [photos EXCEPT
                   ![p].likes = @ - 1,
                   ![p].who_liked = StripLike(users[u].email, @)]
            /\ has_liked' = [has_liked EXCEPT ![p] = @ \ {u}]
            /\ last' = Reply("dislike", <<u, p>>, "OK", 200,
                             "You have removed a like from a photo")
       ELSE /\ last' = Reply("dislike", <<u, p>>, "NOT OK", 403,
                             "You have already unliked this photo")
            /\ UNCHANGED <<photos, has_liked>>
    /\ UNCHANGED <<users, tags, issued, comments, blacklist>>

\* users.delete_like_admin_moder behind PATCH /users/admin_moder_dislike.
delete_someones_like(caller, user_email, p) ==
    /\ caller \in DOMAIN users
    /\ IF ~RoleChecker(allowed_roles_to_delete_like, caller)
       THEN /\ last' = Reply("delete_like_admin_moder", <<user_email, p>>,
                             "forbidden", 403, "Operation forbidden")
            /\ UNCHANGED <<photos, has_liked>>
       ELSE IF p \notin StoredPhotos
       THEN /\ last' = Crash("delete_like_admin_moder", <<user_email, p>>)
            /\ UNCHANGED <<photos, has_liked>>
       ELSE IF ~LikeRecorded(user_email, photos[p].who_liked)
       THEN /\ last' = Reply("delete_like_admin_moder", <<user_email, p>>,
                             "NOT OK", 404, "The user did not like this photo!")
            /\ UNCHANGED <<photos, has_liked>>
       ELSE /\ photos[p].likes > -MaxUnlikes
            /\ photos' = [photos EXCEPT
                   ![p].likes = @ - 1,
                   ![p].who_liked = StripLike(user_email, @)]
            /\ has_liked' = [has_liked EXCEPT ![p] =
                   {v \in @ : users[v].email # user_email}]
            /\ last' = Reply("delete_like_admin_moder", <<user_email, p>>,
                             "OK", 200, "The user's like has been removed")
    /\ UNCHANGED <<users, tags, issued, comments, blacklist>>

NoCall == [op |-> "none", args |-> <<>>, result |-> None, value |-> NoId,
           status |-> 0, detail |-> ""]

\* Three signed-up users (the first one created is the administrator) and one
\* uploaded photo nobody has liked yet.
InitLikes ==
    /\ users = <<UserRow(EmailB, "bob", "pw1", RoleAdmin),
                 UserRow(EmailAB, "abby", "pw1", RoleUser),
                 UserRow(EmailBXY, "boxy", "pw1", RoleUser)>>
    /\ photos = <<PhotoRow(1, "d1", <<>>, 1)>>
    /\ tags = <<>>
    /\ has_liked = <<{}>>
    /\ issued = {}
    /\ comments = << >>
    /\ blacklist = {}
    /\ last = NoCall

PhotoIds == 1..2

NextLikes ==
    \/ \E u \in DOMAIN users, p \in PhotoIds : put_like(u, p)
    \/ \E u \in DOMAIN users, p \in PhotoIds : remove_like(u, p)
    \/ \E c \in DOMAIN users, e \in Emails, p \in PhotoIds :
           delete_someones_like(c, e, p)

SpecLikes == InitLikes /\ [][NextLikes]_vars

\* The e-mail address occurs in who_liked as a whole comma-terminated entry.
HasEntry(email, who_liked) ==
    \E i \in 1..Len(Split(who_liked, ",")) : Split(who_liked, ",")[i] = email

\* C3: put_a_like by a user who has no like on the photo returns "OK", adds
\* exactly 1 to likes and records the user's e-mail in who_liked; it is
\* refused only for a user who already has a like.
C3_LikeRefusedOnlyIfLiked ==
    [][\A u \in DOMAIN users, p \in DOMAIN photos :
          (put_like(u, p) /\ u \notin has_liked[p]) =>
              /\ last'.result = "OK"
              /\ photos'[p].likes = photos[p].likes + 1
              /\ HasEntry(users[u].email, photos'[p].who_liked)]_vars

\* C4: put_a_like by a user who already has a like on the photo returns
\* "NOT OK" and leaves likes and who_liked as they were.
C4_SecondLikeRefused ==
    [][\A u \in DOMAIN users, p \in DOMAIN photos :
          (put_like(u, p) /\ u \in has_liked[p]) =>
              /\ last'.result = "NOT OK"
              /\ photos'[p].likes = photos[p].likes
              /\ photos'[p].who_liked = photos[p].who_liked]_vars

\* C5: dislike by a user who has a like returns "OK", subtracts exactly 1,
\* removes that user's entry and keeps the entry of every other user.
C5_DislikeRemovesOnlyOwnLike ==
    [][\A u \in DOMAIN users, p \in DOMAIN photos :
          (remove_like(u, p) /\ u \in has_liked[p]) =>
              /\ last'.result = "OK"
              /\ photos'[p].likes = photos[p].likes - 1
              /\ ~HasEntry(users[u].email, photos'[p].who_liked)
              /\ \A v \in DOMAIN users \ {u} :
                     HasEntry(users[v].email, photos[p].who_liked) =>
                         HasEntry(users[v].email, photos'[p].who_liked)]_vars

\* The users whose like was accepted and not taken back, by e-mail.
LikerEmails(p) == {users[v].email : v \in has_liked[p]}

\* C6: dislike and delete_like_admin_moder aimed at a user who has no like
\* on the photo return "NOT OK" and leave likes and who_liked as they were.
C6_NoLikeNothingRemoved ==
    [][\A p \in DOMAIN photos :
          /\ \A u \in DOMAIN users :
                 (remove_like(u, p) /\ u \notin has_liked[p]) =>
                     /\ last'.result = "NOT OK"
                     /\ photos' = photos
          /\ \A c \in DOMAIN users, e \in Emails :
                 (/\ delete_someones_like(c, e, p)
                  /\ RoleChecker(allowed_roles_to_delete_like, c)
                  /\ e \notin LikerEmails(p)) =>
                     /\ last'.result = "NOT OK"
                     /\ photos' = photos]_vars


(***************************************************************************)
(* Tags: create_tag, create_user_photo, update_user_photo                  *)
(***************************************************************************)

\* The most tag titles create_user_photo accepts for one photo.
MaxTagsPerPhoto == 5

TagNeverFound(table, title) == NoId

\* db.query(Tag).filter(Tag.title == title).first() on the committed rows:
\* the tag's id, or None.
TagByTitle(table, title) ==
    IF \E i \in StoredTagRows(table) : table[i].title = title
    THEN CHOOSE i \in StoredTagRows(table) : table[i].title = title
    ELSE NoId

\* The tags table without its unique constraint on title.
NoUniqueConstraint(table) == FALSE

\* Tag.title is unique=True: the database refuses (IntegrityError) a flush
\* that would leave two rows with one title.
UniqueViolation(table) ==
    \E i, j \in StoredTagRows(table) : i # j /\ table[i].title = table[j].title

\* [tag.strip() for tag in form.split(",") if tag.strip()]
TagTitles(form) ==
    LET pieces == Split(form, ",")
        stripped == [i \in DOMAIN pieces |-> Strip(pieces[i])]
    IN  SelectSeq(stripped, LAMBDA t : t # <<>>)

RECURSIVE FindOrCreateEach(_, _, _)
\* The loop of create_user_photo: each title is looked up, and a missing one
\* is added and committed before the next title is looked up.
FindOrCreateEach(table, titles, user_id) ==
    IF titles = <<>> THEN [tags |-> table, ids |-> <<>>, failed |-> FALSE]
    ELSE LET found == TagByTitle(table, Head(titles))
             added == IF found = NoId
                      THEN Append(table, TagRow(Head(titles), user_id))
                      ELSE table
             id == IF found = NoId THEN Len(added) ELSE found
         IN  IF UniqueViolation(added)
             THEN [tags |-> table, ids |-> <<>>, failed |-> TRUE]
             ELSE LET rest == FindOrCreateEach(added, Tail(titles), user_id)
                  IN  [tags |-> rest.tags, ids |-> <<id>> \o rest.ids,
                       failed |-> rest.failed]

\* The loop of update_user_photo: every title is looked up among the committed
\* rows (the session does not autoflush), each miss makes a pending Tag, and
\* the pending tags are inserted by the one commit that ends the function.
PendingTitles(table, titles) ==
    SelectSeq(titles, LAMBDA t : TagByTitle(table, t) = NoId)

PendingBefore(table, titles, i) ==
    Cardinality({j \in 1..i : TagByTitle(table, titles[j]) = NoId})

FindOrAddAll(table, titles, user_id) ==
    LET pending == PendingTitles(table, titles)
        added == table \o [k \in DOMAIN pending |-> TagRow(pending[k], user_id)]
    IN  [tags |-> added,
         ids |-> [i \in DOMAIN titles |->
                     IF TagByTitle(table, titles[i]) = NoId
                     THEN Len(table) + PendingBefore(table, titles, i)
                     ELSE TagByTitle(table, titles[i])],
         failed |-> UniqueViolation(added)]

\* tags.create_tag behind POST /tags/.
create_tag(u, title) ==
    /\ u \in DOMAIN users
    /\ IF TagByTitle(tags, title) = NoId
       THEN LET added == Append(tags, TagRow(title, u))
            IN  IF UniqueViolation(added)
                THEN /\ last' = Crash("create_tag", <<u, title>>)
                     /\ UNCHANGED tags
                ELSE /\ tags' = added
                     /\ last' = ReplyWith("create_tag", <<u, title>>,
                                          Len(added), 201)
       ELSE /\ last' = Reply("create_tag", <<u, title>>, None, 409,
                             "Tag already exists")
            /\ UNCHANGED tags
    /\ UNCHANGED <<users, photos, has_liked, issued, comments, blacklist>>

MaxPhotos == 2

\* photos.create_user_photo behind POST /photos/ (the function is run to its
\* end, as the unit tests run it).
create_user_photo(u, description, form_tags) ==
    /\ u \in DOMAIN users
    /\ Len(photos) < MaxPhotos
    /\ IF Len(form_tags) > MaxTagsPerPhoto
       THEN /\ last' = Reply("create_user_photo", <<u, form_tags>>, "HTTPException", 400,
                             "Too many tags provided")
            /\ UNCHANGED <<photos, tags, has_liked>>
       ELSE IF form_tags = <<>>
       THEN /\ last' = Crash("create_user_photo", <<u, form_tags>>)
            /\ UNCHANGED <<photos, tags, has_liked>>
       ELSE IF Len(TagTitles(form_tags[1])) > MaxTagsPerPhoto
       THEN /\ last' = Reply("create_user_photo", <<u, form_tags>>, "HTTPException", 400,
                             "Too many tags provided")
            /\ UNCHANGED <<photos, tags, has_liked>>
       ELSE LET made == FindOrCreateEach(tags, TagTitles(form_tags[1]), u)
                id == Len(photos) + 1
            IN  /\ tags' = made.tags
                /\ IF made.failed
                   THEN /\ last' = Crash("create_user_photo", <<u, form_tags>>)
                        /\ UNCHANGED <<photos, has_liked>>
                   ELSE /\ photos' = Append(photos,
                                PhotoRow(u, description, made.ids, id))
                        /\ has_liked' = Append(has_liked, {})
                        /\ last' = ReplyWith("create_user_photo",
                                             <<u, form_tags>>, id, 201)
    /\ UNCHANGED <<users, issued, comments, blacklist>>

\* photos.update_user_photo.
update_user_photo(p, description, new_tags, u) ==
    /\ u \in DOMAIN users
    /\ p \in StoredPhotos
    /\ LET made == FindOrAddAll(tags, new_tags, u)
       IN  IF new_tags # <<>> /\ made.failed
           THEN /\ last' = Crash("update_user_photo", <<p, new_tags>>)
                /\ UNCHANGED <<photos, tags>>
           ELSE /\ tags' = IF new_tags # <<>> THEN made.tags ELSE tags
                /\ photos' = [photos EXCEPT
                       ![p].description = description,
                       ![p].tags = IF new_tags # <<>> THEN made.ids ELSE @]
                /\ last' = ReplyWith("update_user_photo", <<p, new_tags>>, p, 200)
    /\ UNCHANGED <<users, has_liked, issued, comments, blacklist>>

\* Tag titles and the tags form field.
TitleA == <<"a">>
TitleB == <<"b">>
TitleC == <<"c">>
TitleD == <<"d">>
TitleE == <<"e">>
TitleF == <<"f">>
FormAB == <<"a", ",", "b">>
FormSpaced == <<" ", "b", " ", ",", " ", ",", "a">>
FormCC == <<"c", ",", "c">>
FormSix == <<"a", ",", "b", ",", "c", ",", "d", ",", "e", ",", "f">>
FormEmpty == <<>>

\* The values of the List[str] form field tags of POST /photos/.
FormTagLists ==
    {<<>>, <<FormAB>>, <<FormSpaced, FormSix>>, <<FormCC>>, <<FormSix>>,
     <<FormEmpty>>,
     <<FormEmpty, FormEmpty, FormEmpty, FormEmpty, FormEmpty, FormEmpty>>}

\* The values of PhotoUpdate.tags.
UpdateTagLists ==
    {<<>>, <<TitleA>>, <<TitleD, TitleD>>, <<TitleB, TitleE, TitleB>>,
     <<TitleA, TitleB, TitleC, TitleD, TitleE, TitleF>>}

CreateTagTitles == {TitleA, TitleE}

\* The description sent with a photo (tags do not depend on it).
TagSpecDescriptions == {"d1"}

\* One signed-up user, no photos and no tags.
InitTags ==
    /\ users = <<UserRow(EmailB, "bob", "pw1", RoleAdmin)>>
    /\ photos = <<>>
    /\ tags = <<>>
    /\ has_liked = <<>>
    /\ issued = {}
    /\ comments = << >>
    /\ blacklist = {}
    /\ last = NoCall

NextTags ==
    \/ \E u \in DOMAIN users, t \in CreateTagTitles : create_tag(u, t)
    \/ \E u \in DOMAIN users, d \in TagSpecDescriptions, f \in FormTagLists :
           create_user_photo(u, d, f)
    \/ \E p \in DOMAIN photos, d \in TagSpecDescriptions, t \in UpdateTagLists,
          u \in DOMAIN users : update_user_photo(p, d, t, u)

SpecTags == InitTags /\ [][NextTags]_vars

\* C1: every stored photo has at most 5 tags.
C1_AtMostFiveTags ==
    \A p \in DOMAIN photos :
        Cardinality(Range(photos[p].tags)) <= MaxTagsPerPhoto

\* The titles of the tags a photo is joined to, in order.
TitlesOf(table, tag_ids) == [i \in DOMAIN tag_ids |-> table[tag_ids[i]].title]

\* C2: tags are found or created by title. After every step no two rows of
\* tags have the same title; the rows that existed are kept as they were and
\* a row is added only for a title no row had; and a photo stored by
\* create_user_photo or update_user_photo is joined to the rows that carry
\* the titles of the request, a repeated title to one row.
C2_TagsFoundOrCreated ==
    [][/\ \A i, j \in DOMAIN tags' : tags'[i].title = tags'[j].title => i = j
       /\ \A i \in DOMAIN tags : tags'[i] = tags[i]
       /\ \A i \in DOMAIN tags' \ DOMAIN tags :
             \A j \in DOMAIN tags : tags[j].title # tags'[i].title
       /\ (last'.op = "create_user_photo" /\ last'.result = "value") =>
             TitlesOf(tags', photos'[last'.value].tags)
                 = TagTitles(last'.args[2][1])
       /\ (/\ last'.op = "update_user_photo"
           /\ last'.result = "value"
           /\ last'.args[2] # <<>>) =>
             TitlesOf(tags', photos'[last'.value].tags) = last'.args[2]]_vars

\* A request that repeated one new title was stored: both entries of the
\* photo are the one tag row made for the title.
C2_RepeatedTitleStored ==
    /\ last.op = "create_user_photo"
    /\ last.args[2] = <<FormCC>>
    /\ last.status = 201
    /\ photos[last.value].tags[1] = photos[last.value].tags[2]
    /\ tags[photos[last.value].tags[1]].title = TitleC
    /\ \E p \in DOMAIN photos : Len(photos[p].tags) = 3


(***************************************************************************)
(* Accounts: signup, confirmed_email, login, refresh_token, block_user,    *)
(* change_role                                                             *)
(***************************************************************************)

\* auth_service.get_password_hash / verify_password: a one-way hash that
\* verify_password recomputes.
get_password_hash(password) == <<"hash", password>>
verify_password(plain_password, hashed_password) ==
    hashed_password = get_password_hash(plain_password)

\* auth_service.create_refresh_token(data={"sub": email}): a signed token
\* naming the e-mail; every token made differs from the ones made before.
create_refresh_token(email) == <<"refresh_token", email, Cardinality(issued) + 1>>
create_access_token(email) == <<"access_token", email, Cardinality(issued) + 1>>

\* auth_service.decode_refresh_token: the e-mail the token names.
decode_refresh_token(token) == token[2]

\* auth_service.get_current_user: the caller presents an access token, which
\* login and refresh_token hand out together with the refresh tokens.
Authenticated(u) ==
    /\ u \in DOMAIN users
    /\ \E t \in issued : decode_refresh_token(t) = users[u].email

MaxUsers == 2
MaxTokens == 3

RoleUserForAll(table) == RoleUser

\* users.create_user, lines 36-39: the first user becomes the administrator.
FirstRole(table) == IF Len(table) = 0 THEN RoleAdmin ELSE RoleUser

\* POST /auth/signup.
signup(email, username, password) ==
    /\ Len(users) < MaxUsers
    /\ IF get_user_by_email(email) # NoId
       THEN /\ last' = Reply("signup", <<email>>, "HTTPException", 409,
                             "Account already exists")
            /\ UNCHANGED users
       ELSE /\ users' = Append(users,
                   UserRow(email, username, get_password_hash(password),
                           FirstRole(users)))
            /\ last' = ReplyWith("signup", <<email>>, Len(users) + 1, 201)
    /\ UNCHANGED <<photos, tags, has_liked, issued, comments, blacklist>>

\* GET /auth/confirmed_email/{token}, for the token mailed to email.
confirmed_email(email) ==
    /\ LET user == get_user_by_email(email)
       IN  IF user = NoId
           THEN /\ last' = Reply("confirmed_email", <<email>>, "HTTPException",
                                 400, "Verification error")
                /\ UNCHANGED users
           ELSE IF users[user].confirmed_email
           THEN /\ last' = Reply("confirmed_email", <<email>>, "OK", 200,
                                 "Your email is already confirmed")
                /\ UNCHANGED users
           ELSE /\ users' = [users EXCEPT ![user].confirmed_email = TRUE]
                /\ last' = Reply("confirmed_email", <<email>>, "OK", 200,
                                 "Email confirmed")
    /\ UNCHANGED <<photos, tags, has_liked, issued, comments, blacklist>>

\* Reading user.is_banned, login line 50, when get_user_by_email found
\* nobody: AttributeError on None. The test `user is None` of line 52 comes
\* after it.
BannedCheckRaises(user) == user = NoId

\* POST /auth/login.
login(email, password) ==
    /\ LET user == get_user_by_email(email)
       IN  IF BannedCheckRaises(user)
           THEN /\ last' = Crash("login", <<email, password>>)
                /\ UNCHANGED <<users, issued>>
           ELSE IF users[user].is_banned
           THEN /\ last' = Reply("login", <<email, password>>, "HTTPException",
                                 401, "User is banned")
                /\ UNCHANGED <<users, issued>>
           ELSE IF user = NoId
           THEN /\ last' = Reply("login", <<email, password>>, "HTTPException",
                                 401, "Invalid email")
                /\ UNCHANGED <<users, issued>>
           ELSE IF ~users[user].confirmed_email
           THEN /\ last' = Reply("login", <<email, password>>, "HTTPException",
                                 401, "Email not confirmed")
                /\ UNCHANGED <<users, issued>>
           ELSE IF ~verify_password(password, users[user].password)
           THEN /\ last' = Reply("login", <<email, password>>, "HTTPException",
                                 401, "Invalid password")
                /\ UNCHANGED <<users, issued>>
           ELSE /\ Cardinality(issued) < MaxTokens
                /\ users' = [users EXCEPT
                       ![user].refresh_token = create_refresh_token(users[user].email)]
                /\ issued' = issued \cup {create_refresh_token(users[user].email)}
                /\ last' = ReplyWith("login", <<email, password>>,
                       <<create_access_token(users[user].email),
                         create_refresh_token(users[user].email)>>, 200)
    /\ UNCHANGED <<photos, tags, has_liked, comments, blacklist>>

AnyTokenMatches(user, token) == FALSE

\* refresh_token, line 140: `user.refresh_token != token`.
TokenMismatch(user, token) == users[user].refresh_token # token

\* GET /auth/refresh_token with a refresh token in the Authorization header.
refresh_token(token) ==
    /\ token \in issued
    /\ LET email == decode_refresh_token(token)
           user == get_user_by_email(email)
       IN  IF user = NoId
           THEN /\ last' = Crash("refresh_token", <<token>>)
                /\ UNCHANGED <<users, issued>>
           ELSE IF TokenMismatch(user, token)
           THEN /\ users' = [users EXCEPT ![user].refresh_token = NoToken]
                /\ last' = Reply("refresh_token", <<token>>, "HTTPException",
                                 401, "Invalid refresh token")
                /\ UNCHANGED issued
           ELSE /\ Cardinality(issued) < MaxTokens
                /\ users' = [users EXCEPT
                       ![user].refresh_token = create_refresh_token(email)]
                /\ issued' = issued \cup {create_refresh_token(email)}
                /\ last' = ReplyWith("refresh_token", <<token>>,
                       <<create_access_token(email),
                         create_refresh_token(email)>>, 200)
    /\ UNCHANGED <<photos, tags, has_liked, comments, blacklist>>

\* POST /users/block: users.block_user behind RoleChecker(["Administrator"]).
blocking_user(caller, user_email) ==
    /\ Authenticated(caller)
    /\ IF ~RoleChecker(allowed_roles_to_block, caller)
       THEN /\ last' = Reply("block_user", <<caller, user_email>>,
                             "HTTPException", 403, "Operation forbidden")
            /\ UNCHANGED users
       ELSE LET result == get_user_by_email(user_email)
            IN  IF result = NoId
                THEN /\ last' = Crash("block_user", <<caller, user_email>>)
                     /\ UNCHANGED users
                ELSE /\ users' = [users EXCEPT ![result].is_banned = TRUE]
                     /\ last' = Reply("block_user", <<caller, user_email>>,
                                      "OK", 200, "User blocked")
    /\ UNCHANGED <<photos, tags, has_liked, issued, comments, blacklist>>

\* change_role with the test of line 115 left out.
NobodyIsAdmin(user) == FALSE

\* users.change_role, line 115: user.roles != Roles.admin, negated.
IsAdmin(user) == users[user].roles = RoleAdmin

\* PATCH /users/change_role: users.change_role behind
\* RoleChecker(["Administrator"]).
change_role(caller, user_email, role) ==
    /\ Authenticated(caller)
    /\ IF ~RoleChecker(allowed_roles_to_change_role, caller)
       THEN /\ last' = Reply("change_role", <<caller, user_email, role>>,
                             "HTTPException", 403, "Operation forbidden")
            /\ UNCHANGED users
       ELSE LET user == get_user_by_email(user_email)
            IN  IF user = NoId
                THEN /\ last' = Crash("change_role", <<caller, user_email, role>>)
                     /\ UNCHANGED users
                ELSE IF ~IsAdmin(user)
                THEN /\ users' = [users EXCEPT ![user].roles = role]
                     /\ last' = Reply("change_role", <<caller, user_email, role>>,
                                      "OK", 200, "User role changed")
                ELSE /\ last' = Reply("change_role", <<caller, user_email, role>>,
                                      "NOT OK", 403,
                                      "Changing role for admin is forbidden")
                     /\ UNCHANGED users
    /\ UNCHANGED <<photos, tags, has_liked, issued, comments, blacklist>>

\* The access tokens handed out: login and refresh_token make one together
\* with every refresh token.
AccessTokens == {<<"access_token", t[2], t[3]>> : t \in issued}

\* auth_service.get_current_user: the user whose e-mail the access token
\* names, or None (the dependency then answers 401 before the handler runs).
get_current_user(token) == get_user_by_email(token[2])

\* auth_service.is_token_blacklisted.
is_token_blacklisted(token) == token \in blacklist

\* The handler-level answer to a blacklisted token.
TokenIsBlacklisted(op, args) ==
    Reply(op, args, "HTTPException", 401, "Token is blacklisted")

\* POST /auth/logout: auth_service.logout(token).
logout(token) ==
    /\ token \in AccessTokens
    /\ token \notin blacklist
    /\ blacklist' = blacklist \cup {token}
    /\ last' = Reply("logout", <<token>>, "OK", 200, "Successfully logged out")
    /\ UNCHANGED <<users, photos, tags, has_liked, issued, comments>>

\* An omitted e-mail of AdminUserPatch.
NoEmail == <<>>

EmailNeverTaken(existing_user, user) == FALSE

\* edit_user_profile, line 215: `existing_user and existing_user.id != user.id`.
EmailTaken(existing_user, user) == existing_user # NoId /\ existing_user # user

\* models.py line 21, User.email unique=True: the commit of a second row with
\* an e-mail fails with IntegrityError.
EmailUniqueViolation(table) ==
    \E i, j \in DOMAIN table : i # j /\ table[i].email = table[j].email

\* The row after the assignments of edit_user_profile and patch_user_profile:
\* every field that is given is stored, the password hashed.
Updated(row, email, username, password) ==
    [row EXCEPT
        !.email = IF email # NoEmail THEN email ELSE @,
        !.username = IF username # None THEN username ELSE @,
        !.password = IF password # None THEN get_password_hash(password) ELSE @]

\* The lines edit_user_profile and patch_user_profile share: the conflict
\* test, the assignments and the commit.
StoreProfile(op, args, user, email, username, password) ==
    IF email # NoEmail /\ EmailTaken(get_user_by_email(email), user)
    THEN /\ last' = Reply(op, args, "HTTPException", 409,
                          "This user already exists. Please enter another email")
         /\ UNCHANGED users
    ELSE IF EmailUniqueViolation(
                [users EXCEPT ![user] = Updated(@, email, username, password)])
    THEN /\ last' = Crash(op, args)
         /\ UNCHANGED users
    ELSE /\ users' = [users EXCEPT ![user] = Updated(@, email, username, password)]
         /\ last' = Reply(op, args, "OK", 200, "Data changed successfully")

\* PUT /users/edit: UserUpdate carries email, username and password.
edit_user_profile(token, email, username, password) ==
    /\ token \in AccessTokens
    /\ get_current_user(token) # NoId
    /\ IF is_token_blacklisted(token)
       THEN /\ last' = TokenIsBlacklisted("edit_user_profile", <<token, email>>)
            /\ UNCHANGED users
       ELSE StoreProfile("edit_user_profile", <<token, email>>,
                         get_current_user(token), email, username, password)
    /\ UNCHANGED <<photos, tags, has_liked, issued, comments, blacklist>>

\* PATCH /users/patch/{user_id}: the user is found by the query parameter
\* email; every field of AdminUserPatch may be omitted.
patch_user_profile(token, email, new_email, username, password) ==
    /\ token \in AccessTokens
    /\ get_current_user(token) # NoId
    /\ LET args == <<token, email, new_email>>
           user == get_user_by_email(email)
       IN  IF is_token_blacklisted(token)
           THEN /\ last' = TokenIsBlacklisted("patch_user_profile", args)
                /\ UNCHANGED users
           ELSE IF users[get_current_user(token)].roles # RoleAdmin
           THEN /\ last' = Reply("patch_user_profile", args, "HTTPException",
                                 403, "Permission denied")
                /\ UNCHANGED users
           ELSE IF user = NoId
           THEN /\ last' = Reply("patch_user_profile", args, "HTTPException",
                                 404, "User not found")
                /\ UNCHANGED users
           ELSE StoreProfile("patch_user_profile", args, user, new_email,
                             username, password)
    /\ UNCHANGED <<photos, tags, has_liked, issued, comments, blacklist>>

AuthEmails == {EmailB, EmailAB, EmailC}
Passwords == {"pw1", "pw2"}

\* The empty database.
InitAuth ==
    /\ users = <<>>
    /\ photos = <<>>
    /\ tags = <<>>
    /\ has_liked = <<>>
    /\ issued = {}
    /\ comments = << >>
    /\ blacklist = {}
    /\ last = NoCall

NextAuth ==
    \/ \E e \in AuthEmails : signup(e, "name", "pw1")
    \/ \E u \in DOMAIN users : confirmed_email(users[u].email)
    \/ \E e \in AuthEmails, pw \in Passwords : login(e, pw)
    \/ \E t \in issued : refresh_token(t)
    \/ \E c \in DOMAIN users, e \in AuthEmails : blocking_user(c, e)
    \/ \E c \in DOMAIN users, e \in AuthEmails, r \in Roles :
           change_role(c, e, r)

SpecAuth == InitAuth /\ [][NextAuth]_vars


\* A user who signed up, confirmed the e-mail address and logged in once.
LoggedIn(email, username, roles, n) ==
    [UserRow(email, username, get_password_hash("pw1"), roles) EXCEPT
        !.confirmed_email = TRUE,
        !.refresh_token = <<"refresh_token", email, n>>]

\* Three logged-in users: the administrator and two plain users.
InitRoles ==
    /\ users = <<LoggedIn(EmailB, "bob", RoleAdmin, 1),
                 LoggedIn(EmailAB, "abby", RoleUser, 2),
                 LoggedIn(EmailC, "carl", RoleUser, 3)>>
    /\ photos = <<>>
    /\ tags = <<>>
    /\ has_liked = <<>>
    /\ issued = {users[u].refresh_token : u \in DOMAIN users}
    /\ comments = << >>
    /\ blacklist = {}
    /\ last = NoCall

NextRoles ==
    \/ \E c \in DOMAIN users, e \in Emails, r \in Roles : change_role(c, e, r)
    \/ \E c \in DOMAIN users, e \in Emails : blocking_user(c, e)

SpecRoles == InitRoles /\ [][NextRoles]_vars

\* C7: no step changes the role of an Administrator; change_role aimed at an
\* Administrator answers "NOT OK" (403) and changes no user, and aimed at any
\* other existing user it sets the requested role and answers "OK".
C7_AdminRoleIsKept ==
    [][/\ \A u \in DOMAIN users :
             users[u].roles = RoleAdmin => users'[u].roles = RoleAdmin
       /\ \A c \in DOMAIN users, e \in Emails, r \in Roles :
             (/\ change_role(c, e, r)
              /\ RoleChecker(allowed_roles_to_change_role, c)
              /\ get_user_by_email(e) # NoId) =>
                 IF users[get_user_by_email(e)].roles = RoleAdmin
                 THEN /\ last'.result = "NOT OK"
                      /\ last'.status = 403
                      /\ users' = users
                 ELSE /\ last'.result = "OK"
                      /\ users'[get_user_by_email(e)].roles = r]_vars

\* change_role was just refused for an Administrator, after it changed
\* another user's role to Moderator.
C7_AdminRefusedAfterChange ==
    /\ last.op = "change_role"
    /\ last.result = "NOT OK"
    /\ users[get_user_by_email(last.args[2])].roles = RoleAdmin
    /\ \E u \in DOMAIN users : users[u].roles = RoleModerator

\* C9: a login that fails answers 401 and changes no stored refresh token,
\* and a login with an e-mail address of no user answers 401 "Invalid email"
\* and hands out no token.
C9_FailedLoginIs401 ==
    [][\A e \in AuthEmails, pw \in Passwords :
          login(e, pw) =>
              /\ get_user_by_email(e) = NoId =>
                     /\ last'.status = 401
                     /\ last'.detail = "Invalid email"
                     /\ issued' = issued
              /\ last'.status # 200 =>
                     /\ last'.status = 401
                     /\ \A u \in DOMAIN users :
                            users'[u].refresh_token = users[u].refresh_token]_vars

\* C10: no step hands a new token to a user who is blocked.
C10_BlockedGetsNoToken ==
    [][\A u \in DOMAIN users :
          users[u].is_banned =>
              \A t \in issued' \ issued :
                  decode_refresh_token(t) # users[u].email]_vars

(***************************************************************************)
(* Search: search_photos                                                   *)
(***************************************************************************)

\* A query parameter that was not sent (None), for description and username
\* and for tag.
NotSent == ""
NoTag == <<>>

\* The photo has a photo_2_tag row that joins it to a tag with this title.
HasTagTitled(p, title) ==
    \E i \in DOMAIN photos[p].tags : tags[photos[p].tags[i]].title = title

RECURSIVE NewestFirst(_)
\* order_by(desc(Photo.created_at)).all(): each photo once, newest first.
NewestFirst(ids) ==
    IF ids = {} THEN <<>>
    ELSE LET newest == CHOOSE p \in ids : \A q \in ids :
                           photos[p].created_at >= photos[q].created_at
         IN  <<newest>> \o NewestFirst(ids \ {newest})

\* The filter search_photos applies, by its if/elif chain (lines 298-317).
SearchFilter(p, description, tag, user) ==
    IF description # NotSent /\ tag # NoTag
    THEN photos[p].description = description /\ HasTagTitled(p, tag)
    ELSE IF description # NotSent /\ tag = NoTag
    THEN photos[p].description = description
    ELSE IF tag # NoTag /\ description = NotSent
    THEN HasTagTitled(p, tag)
    ELSE IF user # NotSent /\ description = NotSent /\ tag = NoTag
    THEN users[photos[p].user_id].username = user
    ELSE TRUE

\* GET /photos/search/: photos.search_photos for the caller.
search_photos(caller, description, tag, user) ==
    /\ caller \in DOMAIN users
    /\ LET is_admin == users[caller].roles = RoleAdmin
           args == <<caller, description, tag, user>>
           found == NewestFirst({p \in StoredPhotos :
                                    SearchFilter(p, description, tag, user)})
       IN  IF /\ description = NotSent /\ tag = NoTag /\ user # NotSent
              /\ ~is_admin
           THEN last' = Reply("search_photos", args, "HTTPException", 403,
                              "Permission denied")
           ELSE IF found = <<>>
           THEN last' = [ReplyWith("search_photos", args, found, 404)
                            EXCEPT !.detail = "Not Found"]
           ELSE last' = ReplyWith("search_photos", args, found, 200)
    /\ UNCHANGED <<users, photos, tags, has_liked, issued, comments, blacklist>>

SearchDescriptions == {"d1", "d2"}
SearchTagLists == {<<>>, <<1>>, <<1, 2>>}

\* Two users, the tags a and b, and two photos of any owner, description and
\* tags.
InitSearch ==
    /\ users = <<LoggedIn(EmailB, "bob", RoleAdmin, 1),
                 LoggedIn(EmailAB, "abby", RoleUser, 2)>>
    /\ tags = <<TagRow(TitleA, 1), TagRow(TitleB, 2)>>
    /\ \E o1, o2 \in DOMAIN users, d1, d2 \in SearchDescriptions,
          t1, t2 \in SearchTagLists :
           photos = <<PhotoRow(o1, d1, t1, 1), PhotoRow(o2, d2, t2, 2)>>
    /\ has_liked = <<{}, {}>>
    /\ issued = {users[u].refresh_token : u \in DOMAIN users}
    /\ comments = << >>
    /\ blacklist = {}
    /\ last = NoCall

NextSearch ==
    \E c \in DOMAIN users, d \in SearchDescriptions \cup {NotSent},
       t \in {TitleA, TitleB, NoTag}, n \in {"bob", "abby", NotSent} :
        search_photos(c, d, t, n)

SpecSearch == InitSearch /\ [][NextSearch]_vars

\* C8: every photo search_photos returns matches each argument that was
\* supplied: the description, the tag and the owner's username.
C8_ResultMatchesEveryArgument ==
    (last.op = "search_photos" /\ last.result = "value") =>
        \A i \in DOMAIN last.value :
            LET p == last.value[i]
                description == last.args[2]
                tag == last.args[3]
                user == last.args[4]
            IN  /\ description # NotSent => photos[p].description = description
                /\ tag # NoTag => HasTagTitled(p, tag)
                /\ user # NotSent => users[photos[p].user_id].username = user


(***************************************************************************)
(* Refresh tokens of registered, confirmed users                           *)
(***************************************************************************)

Confirmed(email, username, password, roles) ==
    [UserRow(email, username, get_password_hash(password), roles)
        EXCEPT !.confirmed_email = TRUE]

InitTokens ==
    /\ users = << Confirmed(EmailB, "bob", "pw1", RoleAdmin),
                  Confirmed(EmailAB, "abby", "pw2", RoleUser),
                  Confirmed(EmailC, "carl", "pw1", RoleUser) >>
    /\ photos = << >>
    /\ tags = << >>
    /\ has_liked = << >>
    /\ issued = {}
    /\ comments = << >>
    /\ blacklist = {}
    /\ last = NoCall

NextTokens ==
    \/ \E email \in AuthEmails, password \in Passwords : login(email, password)
    \/ \E token \in issued : refresh_token(token)

SpecTokens == InitTokens /\ [][NextTokens]_vars

\* The user a refresh token names.
TokenUser(token) == get_user_by_email(decode_refresh_token(token))

InitProfiles ==
    /\ users = << LoggedIn(EmailB, "bob", RoleAdmin, 1) >>
    /\ photos = << >>
    /\ tags = << >>
    /\ has_liked = << >>
    /\ issued = {users[u].refresh_token : u \in DOMAIN users}
    /\ comments = << >>
    /\ blacklist = {}
    /\ last = NoCall

NextProfiles ==
    \/ \E e \in AuthEmails : signup(e, "name", "pw1")
    \/ \E t \in AccessTokens, e \in AuthEmails : edit_user_profile(t, e, "name", "pw1")
    \/ \E t \in AccessTokens, e \in AuthEmails, n \in AuthEmails \cup {NoEmail},
          name \in {None, "rob"} :
           patch_user_profile(t, e, n, name, None)

SpecProfiles == InitProfiles /\ [][NextProfiles]_vars

\* C12: user e-mails stay unique. After every step no two users have the
\* same e-mail; a signup with an e-mail some user has is answered 409
\* 'Account already exists' and adds no user; and an edit_user_profile or
\* patch_user_profile that names a new e-mail a different user has is
\* answered 409 and changes no user.
C12_EmailsStayUnique ==
    [][/\ \A i, j \in DOMAIN users' : users'[i].email = users'[j].email => i = j
       /\ (last'.op = "signup" /\ get_user_by_email(last'.args[1]) # NoId) =>
             /\ last'.status = 409
             /\ last'.detail = "Account already exists"
             /\ users' = users
       /\ (/\ last'.op = "edit_user_profile"
           /\ ~is_token_blacklisted(last'.args[1])
           /\ get_user_by_email(last'.args[2])
                 \notin {NoId, get_current_user(last'.args[1])}) =>
             /\ last'.status = 409
             /\ users' = users
       /\ (/\ last'.op = "patch_user_profile"
           /\ last'.status \notin {401, 403, 404}
           /\ last'.args[3] # NoEmail
           /\ get_user_by_email(last'.args[3])
                 \notin {NoId, get_user_by_email(last'.args[2])}) =>
             /\ last'.status = 409
             /\ users' = users]_vars

\* An edit that asked for the e-mail of another user, who signed up and was
\* patched by the administrator, was refused.
C12_TakenEmailRefused ==
    /\ last.op = "edit_user_profile"
    /\ last.status = 409
    /\ Len(users) = 2
    /\ users[2].username = "rob"
    /\ users[2].email = last.args[2]
    /\ get_current_user(last.args[1]) = 1

(***************************************************************************)
(* Photos: delete_user_photo, get_user_photo_by_id, create_qr_code         *)
(***************************************************************************)

\* `"Administrator" in current_user.roles.split(",")`.
is_admin(user) == users[user].roles = RoleAdmin

\* A coroutine object: what calling an `async def` without await evaluates to.
NotAwaited == "coroutine"

\* photos.delete_user_photo, line 344: get_public_id_from_image_url is an
\* `async def` and is called without await.
get_public_id_from_image_url(image_url) == NotAwaited

\* photos.delete_user_photo, line 349: `"PhotoshareApp_qrcode/" + public_id`
\* raises TypeError unless public_id is a str.
ConcatRaises(public_id) == public_id = NotAwaited

\* Photo.comment, cascade="all, delete-orphan": the comments of a deleted
\* photo go with it.
CascadeDelete(table, photo_id) ==
    [c \in DOMAIN table |->
        IF table[c].photo_id = photo_id THEN DeletedComment ELSE table[c]]

\* DELETE /photos/{photo_id}.
delete_user_photo(token, p) ==
    /\ token \in AccessTokens
    /\ get_current_user(token) # NoId
    /\ LET user == get_current_user(token)
           args == <<token, p>>
       IN  IF is_token_blacklisted(token)
           THEN /\ last' = TokenIsBlacklisted("delete_user_photo", args)
                /\ UNCHANGED <<photos, comments>>
           ELSE IF p \notin StoredPhotos
           THEN /\ last' = Reply("delete_user_photo", args, "None", 404,
                                 "Photo not found")
                /\ UNCHANGED <<photos, comments>>
           ELSE IF ~is_admin(user) /\ user # photos[p].user_id
           THEN /\ last' = Reply("delete_user_photo", args, "HTTPException",
                                 403, "Permission denied")
                /\ UNCHANGED <<photos, comments>>
           ELSE IF ConcatRaises(get_public_id_from_image_url(photos[p].image_url))
           THEN /\ last' = Crash("delete_user_photo", args)
                /\ UNCHANGED <<photos, comments>>
           ELSE /\ photos' = [photos EXCEPT ![p] = DeletedPhoto]
                /\ comments' = CascadeDelete(comments, p)
                /\ last' = ReplyWith("delete_user_photo", args, p, 200)
    /\ UNCHANGED <<users, tags, has_liked, issued, blacklist>>

VisibleToAll(user, p) == TRUE

\* get_user_photo_by_id, the filter
\* `(Photo.user_id == user_id) | (user_id == None)`, user_id being None for
\* an administrator.
VisibleTo(user, p) == is_admin(user) \/ photos[p].user_id = user

\* GET /photos/{photo_id}.
get_user_photo_by_id(token, p) ==
    /\ token \in AccessTokens
    /\ get_current_user(token) # NoId
    /\ LET user == get_current_user(token)
           args == <<token, p>>
       IN  IF is_token_blacklisted(token)
           THEN last' = TokenIsBlacklisted("get_user_photo_by_id", args)
           ELSE IF ~(p \in StoredPhotos /\ VisibleTo(user, p))
           THEN last' = Reply("get_user_photo_by_id", args, "None", 404,
                              "Photo not found")
           ELSE last' = ReplyWith("get_user_photo_by_id", args, p, 200)
    /\ UNCHANGED <<users, photos, tags, has_liked, issued, comments, blacklist>>

OwnedByAnyone(user, p) == TRUE

\* qr_code.make_qr_code_for_photo, the filter
\* `and_(Photo.id == photo_id, Photo.user_id == current_user.id)`.
OwnedBy(user, p) == photos[p].user_id = user

\* The URL of the QR code image uploaded for data.
QrUrl(data) == <<"qr", data>>

\* POST /photos/create_qr_code: qr_code.make_qr_code_for_photo.
create_qr_code(token, p) ==
    /\ token \in AccessTokens
    /\ get_current_user(token) # NoId
    /\ LET user == get_current_user(token)
           args == <<token, p>>
       IN  IF is_token_blacklisted(token)
           THEN /\ last' = TokenIsBlacklisted("create_qr_code", args)
                /\ UNCHANGED photos
           ELSE IF ~(p \in StoredPhotos /\ OwnedBy(user, p))
           THEN /\ last' = Reply("create_qr_code", args, "None", 404,
                                 "Photo not found")
                /\ UNCHANGED photos
           ELSE /\ photos' = [photos EXCEPT
                       ![p].qr_transform = QrUrl(photos[p].image_url)]
                /\ last' = ReplyWith("create_qr_code", args, p, 201)
    /\ UNCHANGED <<users, tags, has_liked, issued, comments, blacklist>>

\* The administrator and two plain users, logged in; the plain users own
\* one photo each.
InitPhotos ==
    /\ users = <<LoggedIn(EmailB, "bob", RoleAdmin, 1),
                 LoggedIn(EmailAB, "abby", RoleUser, 2),
                 LoggedIn(EmailC, "carl", RoleUser, 3)>>
    /\ photos = <<PhotoRow(2, "d1", <<>>, 1), PhotoRow(3, "d2", <<>>, 2)>>
    /\ tags = << >>
    /\ has_liked = <<{}, {}>>
    /\ issued = {users[u].refresh_token : u \in DOMAIN users}
    /\ comments = << >>
    /\ blacklist = {}
    /\ last = NoCall

\* Photo ids a request may name: the stored ones and one that is not stored.
RequestedPhotos == 1..3

NextPhotos ==
    \/ \E t \in AccessTokens, p \in RequestedPhotos : delete_user_photo(t, p)
    \/ \E t \in AccessTokens, p \in RequestedPhotos : get_user_photo_by_id(t, p)
    \/ \E t \in AccessTokens, p \in RequestedPhotos : create_qr_code(t, p)
    \/ \E t \in AccessTokens : logout(t)

SpecPhotos == InitPhotos /\ [][NextPhotos]_vars

\* The caller of the last call, which presented a token.
Caller(call) == get_current_user(call.args[1])

\* C13: delete_user_photo removes a photo only for its owner or an
\* administrator. Called with a token that is not blacklisted: for a photo
\* that is not stored the answer is 404 and no photo changes; for a caller
\* who is neither the owner nor an administrator the answer is 403
\* 'Permission denied' and no photo changes; for the owner or an
\* administrator the photo is deleted and returned, the other photos kept.
C13_DeleteOnlyByOwnerOrAdmin ==
    [][(last'.op = "delete_user_photo" /\ last'.status # 401) =>
          LET user == Caller(last')
              p == last'.args[2]
          IN  IF p \notin StoredPhotos
              THEN last'.status = 404 /\ photos' = photos
              ELSE IF ~is_admin(user) /\ photos[p].user_id # user
              THEN /\ last'.status = 403
                   /\ last'.detail = "Permission denied"
                   /\ photos' = photos
              ELSE /\ last'.status = 200
                   /\ last'.value = p
                   /\ photos'[p] = DeletedPhoto
                   /\ \A q \in DOMAIN photos : q # p => photos'[q] = photos[q]]_vars

\* C14: photo visibility by id. get_user_photo_by_id, called with a token
\* that is not blacklisted, returns the photo exactly if it is stored and the
\* caller owns it or is an administrator; in every other case the answer is
\* the same 404 'Photo not found', whether the photo belongs to someone else
\* or does not exist. Nothing stored changes.
C14_PhotoVisibleToOwnerOrAdmin ==
    [][(last'.op = "get_user_photo_by_id" /\ last'.status # 401) =>
          LET user == Caller(last')
              p == last'.args[2]
          IN  /\ IF p \in StoredPhotos /\ (is_admin(user) \/ photos[p].user_id = user)
                 THEN last'.status = 200 /\ last'.value = p
                 ELSE [last' EXCEPT !.args = <<>>]
                         = Reply("get_user_photo_by_id", <<>>, "None", 404,
                                 "Photo not found")
              /\ UNCHANGED <<users, photos, tags, comments>>]_vars

\* A plain user asked for the stored photo of another user and got 404.
C14_OthersPhotoNotFound ==
    /\ last.op = "get_user_photo_by_id"
    /\ last.status = 404
    /\ last.args[2] \in StoredPhotos
    /\ ~is_admin(Caller(last))
    /\ photos[last.args[2]].user_id # Caller(last)

\* C20: make_qr_code_for_photo makes a QR code only for a photo of the
\* caller. Called with a token that is not blacklisted: for a stored photo the
\* caller owns, qr_transform becomes the non-null URL of the code made from
\* image_url, nothing else of any photo changes and the answer is 201; for a
\* photo that is not stored or belongs to someone else, the administrator
\* asking included, the answer is 404 'Photo not found' and no photo changes.
C20_QrCodeOnlyForOwnPhoto ==
    [][(last'.op = "create_qr_code" /\ last'.status # 401) =>
          LET user == Caller(last')
              p == last'.args[2]
          IN  IF p \in StoredPhotos /\ photos[p].user_id = user
              THEN /\ last'.status = 201
                   /\ photos'[p].qr_transform # NoUrl
                   /\ photos'[p].qr_transform = QrUrl(photos[p].image_url)
                   /\ photos' = [photos EXCEPT ![p].qr_transform = photos'[p].qr_transform]
              ELSE /\ last'.status = 404
                   /\ last'.detail = "Photo not found"
                   /\ photos' = photos]_vars

\* The administrator asked for a QR code of a plain user's photo and was
\* refused, after the owner had one made.
C20_QrCodeRefusedToAdmin ==
    /\ last.op = "create_qr_code"
    /\ last.status = 404
    /\ last.args[2] \in StoredPhotos
    /\ is_admin(Caller(last))
    /\ photos[last.args[2]].qr_transform # NoUrl

(***************************************************************************)
(* Tags created by several users: create_tag                               *)
(***************************************************************************)

InitTagOwners ==
    /\ users = <<LoggedIn(EmailB, "bob", RoleAdmin, 1),
                 LoggedIn(EmailAB, "abby", RoleUser, 2)>>
    /\ photos = << >>
    /\ tags = << >>
    /\ has_liked = << >>
    /\ issued = {users[u].refresh_token : u \in DOMAIN users}
    /\ comments = << >>
    /\ blacklist = {}
    /\ last = NoCall

NextTagOwners ==
    \E u \in DOMAIN users, t \in {TitleA, TitleB, TitleE} : create_tag(u, t)

SpecTagOwners == InitTagOwners /\ [][NextTagOwners]_vars

\* C15: create_tag with a title some tag has returns None (409) and leaves
\* the tags as they were; with a title no tag has it adds exactly one tag,
\* with that title, owned by the caller, and returns it.
C15_CreateTagOnceOnly ==
    [][last'.op = "create_tag" =>
          LET u == last'.args[1]
              title == last'.args[2]
          IN  IF \E i \in DOMAIN tags : tags[i].title = title
              THEN /\ last'.result = None
                   /\ last'.status = 409
                   /\ tags' = tags
              ELSE /\ tags' = Append(tags, TagRow(title, u))
                   /\ last'.status = 201
                   /\ last'.value = Len(tags')
                   /\ tags'[last'.value] = [title |-> title, user_id |-> u]]_vars

\* A user asked for a title that a tag of another user has, and was refused.
C15_TitleOfAnotherUserRefused ==
    /\ last.op = "create_tag"
    /\ last.status = 409
    /\ \E i \in DOMAIN tags : tags[i].title = last.args[2] /\ tags[i].user_id # last.args[1]
    /\ \E i \in DOMAIN tags : tags[i].user_id = last.args[1]

(***************************************************************************)
(* Comments: the repository functions and the routes in front of them      *)
(***************************************************************************)

MaxComments == 2

\* A repository function's return value, for a call made without a route.
Returned(op, args, value) ==
    IF value = NoId
    THEN Reply(op, args, None, NoId, "")
    ELSE ReplyWith(op, args, value, NoId)

EveryCommentFound(comment_id) == TRUE

\* comments.update_comment, line 66, and delete_comment, line 87: the test of
\* what db.query(Comment).filter(Comment.id == comment_id).first() found.
CommentFound(comment_id) == comment_id \in StoredComments

\* comments.update_comment, lines 67-68: setattr for every key of
\* CommentBase.dict(), which has the one key text.
CommentUpdated(comment_id, text) == [comments EXCEPT ![comment_id].text = text]

\* comments.delete_comment, line 88: db.delete(comment).
CommentDeleted(comment_id) == [comments EXCEPT ![comment_id] = DeletedComment]

\* comments.create_comment. The foreign key comments.photo_id refuses a
\* photo that is not stored.
repository_create_comment(text, photo_id, u) ==
    /\ u \in DOMAIN users
    /\ Len(comments) < MaxComments
    /\ IF photo_id \notin StoredPhotos
       THEN /\ last' = Crash("repository.create_comment", <<text, photo_id, u>>)
            /\ UNCHANGED comments
       ELSE /\ comments' = Append(comments, CommentRow(text, u, photo_id))
            /\ last' = Returned("repository.create_comment",
                                <<text, photo_id, u>>, Len(comments) + 1)
    /\ UNCHANGED <<users, photos, tags, has_liked, issued, blacklist>>

\* comments.update_comment.
repository_update_comment(comment_id, text) ==
    /\ IF CommentFound(comment_id)
       THEN /\ comments' = CommentUpdated(comment_id, text)
            /\ last' = Returned("repository.update_comment",
                                <<comment_id, text>>, comment_id)
       ELSE /\ last' = Returned("repository.update_comment",
                                <<comment_id, text>>, NoId)
            /\ UNCHANGED comments
    /\ UNCHANGED <<users, photos, tags, has_liked, issued, blacklist>>

\* comments.delete_comment.
repository_delete_comment(comment_id) ==
    /\ IF CommentFound(comment_id)
       THEN /\ comments' = CommentDeleted(comment_id)
            /\ last' = Returned("repository.delete_comment",
                                <<comment_id>>, comment_id)
       ELSE /\ last' = Returned("repository.delete_comment", <<comment_id>>, NoId)
            /\ UNCHANGED comments
    /\ UNCHANGED <<users, photos, tags, has_liked, issued, blacklist>>

\* POST /comments/{photos_id}.
create_comment(token, photos_id, text) ==
    /\ token \in AccessTokens
    /\ get_current_user(token) # NoId
    /\ Len(comments) < MaxComments
    /\ LET args == <<token, photos_id, text>>
       IN  IF is_token_blacklisted(token)
           THEN /\ last' = TokenIsBlacklisted("create_comment", args)
                /\ UNCHANGED comments
           ELSE IF photos_id \notin StoredPhotos
           THEN /\ last' = Crash("create_comment", args)
                /\ UNCHANGED comments
           ELSE /\ comments' = Append(comments,
                       CommentRow(text, get_current_user(token), photos_id))
                /\ last' = ReplyWith("create_comment", args, Len(comments) + 1, 200)
    /\ UNCHANGED <<users, photos, tags, has_liked, issued, blacklist>>

AuthorOfAll(comment_id, user) == TRUE

\* routes update_comment, line 100: `db_comment.user_id != user.id`, negated.
IsAuthor(comment_id, user) == comments[comment_id].user_id = user

\* PUT /comments/{comment_id}.
update_comment(token, comment_id, text) ==
    /\ token \in AccessTokens
    /\ get_current_user(token) # NoId
    /\ LET args == <<token, comment_id, text>>
       IN  IF is_token_blacklisted(token)
           THEN /\ last' = TokenIsBlacklisted("update_comment", args)
                /\ UNCHANGED comments
           ELSE IF comment_id \notin StoredComments
           THEN /\ last' = Reply("update_comment", args, "HTTPException", 404,
                                 "Comment not found")
                /\ UNCHANGED comments
           ELSE IF ~IsAuthor(comment_id, get_current_user(token))
           THEN /\ last' = Reply("update_comment", args, "HTTPException", 403,
                                 "Not authorized to edit this comment")
                /\ UNCHANGED comments
           ELSE /\ comments' = IF CommentFound(comment_id)
                               THEN CommentUpdated(comment_id, text)
                               ELSE comments
                /\ last' = ReplyWith("update_comment", args, comment_id, 200)
    /\ UNCHANGED <<users, photos, tags, has_liked, issued, blacklist>>

allowed_roles_to_delete_comments == {RoleAdmin, RoleModerator}

\* DELETE /comments/{comment_id}/, behind the dependency
\* allowed_roles_to_delete_comments, which runs before the handler.
remove_comment(token, comment_id) ==
    /\ token \in AccessTokens
    /\ get_current_user(token) # NoId
    /\ LET args == <<token, comment_id>>
       IN  IF ~RoleChecker(allowed_roles_to_delete_comments, get_current_user(token))
           THEN /\ last' = Reply("remove_comment", args, "HTTPException", 403,
                                 "Operation forbidden")
                /\ UNCHANGED comments
           ELSE IF is_token_blacklisted(token)
           THEN /\ last' = TokenIsBlacklisted("remove_comment", args)
                /\ UNCHANGED comments
           ELSE IF comment_id \notin StoredComments
           THEN /\ last' = Reply("remove_comment", args, "HTTPException", 404,
                                 "Comment not found")
                /\ UNCHANGED comments
           ELSE /\ comments' = IF CommentFound(comment_id)
                               THEN CommentDeleted(comment_id)
                               ELSE comments
                /\ last' = ReplyWith("remove_comment", args, comment_id, 200)
    /\ UNCHANGED <<users, photos, tags, has_liked, issued, blacklist>>

CommentTexts == {"t1", "t2"}

\* Comment ids a request may name: one more than can be stored.
RequestedComments == 1..(MaxComments + 1)

\* An administrator, a moderator and a plain user, logged in, and one photo.
InitComments ==
    /\ users = <<LoggedIn(EmailB, "bob", RoleAdmin, 1),
                 LoggedIn(EmailAB, "abby", RoleModerator, 2),
                 LoggedIn(EmailC, "carl", RoleUser, 3)>>
    /\ photos = <<PhotoRow(1, "d1", <<>>, 1)>>
    /\ tags = << >>
    /\ has_liked = <<{}>>
    /\ issued = {users[u].refresh_token : u \in DOMAIN users}
    /\ comments = << >>
    /\ blacklist = {}
    /\ last = NoCall

\* The repository functions called directly, as the unit tests call them.
NextCommentsRepository ==
    \/ \E text \in CommentTexts, u \in DOMAIN users :
           repository_create_comment(text, 1, u)
    \/ \E c \in RequestedComments, text \in CommentTexts :
           repository_update_comment(c, text)
    \/ \E c \in RequestedComments : repository_delete_comment(c)

SpecCommentsRepository == InitComments /\ [][NextCommentsRepository]_vars

\* The routes.
NextComments ==
    \/ \E t \in AccessTokens, text \in CommentTexts : create_comment(t, 1, text)
    \/ \E t \in AccessTokens, c \in RequestedComments, text \in CommentTexts :
           update_comment(t, c, text)
    \/ \E t \in AccessTokens, c \in RequestedComments : remove_comment(t, c)

SpecComments == InitComments /\ [][NextComments]_vars

C17_CommentAuthorization ==
    [][/\ (last'.op = "update_comment" /\ last'.status # 401) =>
             LET c == last'.args[2]
             IN  IF c \notin StoredComments
                 THEN last'.status = 404 /\ comments' = comments
                 ELSE IF comments[c].user_id # Caller(last')
                 THEN /\ last'.status = 403
                      /\ last'.detail = "Not authorized to edit this comment"
                      /\ comments' = comments
                 ELSE last'.status = 200
       /\ \A c \in StoredComments :
             /\ (c \in StoredComments' /\ comments'[c] # comments[c]) =>
                   /\ last'.op = "update_comment"
                   /\ Caller(last') = comments[c].user_id
             /\ c \notin StoredComments' =>
                   /\ last'.op = "remove_comment"
                   /\ users[Caller(last')].roles \in {RoleAdmin, RoleModerator}]_vars

\* The moderator asked to edit the plain user's comment and was refused,
\* after having removed another comment.
C17_ModeratorCannotEdit ==
    /\ last.op = "update_comment"
    /\ last.status = 403
    /\ users[Caller(last)].roles = RoleModerator
    /\ comments[last.args[2]].user_id = 3
    /\ \E c \in DOMAIN comments : c \notin StoredComments

(***************************************************************************)
(* Logout: handlers called with a blacklisted access token                 *)
(***************************************************************************)

\* PATCH /users/like called with an access token. The handler has no
\* blacklist test of its own (routes/users.py, lines 67-84): its caller is
\* whoever the dependency get_current_user finds for the token.
put_like_request(token, p) ==
    /\ token \in AccessTokens
    /\ get_current_user(token) # NoId
    /\ put_like(get_current_user(token), p)

\* POST /users/block called with an access token (lines 131-153, no
\* blacklist test).
blocking_user_request(token, user_email) ==
    /\ token \in AccessTokens
    /\ get_current_user(token) # NoId
    /\ blocking_user(get_current_user(token), user_email)

NextLogout ==
    \/ \E t \in AccessTokens : logout(t)
    \/ \E t \in AccessTokens : put_like_request(t, 1)
    \/ \E t \in AccessTokens : blocking_user_request(t, EmailC)
    \/ \E t \in AccessTokens, p \in RequestedPhotos : delete_user_photo(t, p)
    \/ \E t \in AccessTokens : create_comment(t, 1, "t1")

SpecLogout == InitPhotos /\ [][NextLogout]_vars

\* The operations whose record of the call starts with the caller's user id;
\* the others start with the access token presented.
CalledByUserId == {"put_a_like", "block_user"}

\* The last call was made with a blacklisted token: the token it records is
\* blacklisted, or every access token of the caller it records is.
WithBlacklistedToken(call) ==
    IF call.op \in CalledByUserId
    THEN \A t \in AccessTokens : get_current_user(t) = call.args[1] => t \in blacklist
    ELSE call.args[1] \in blacklist

\* C18: once logout has blacklisted an access token, every state-changing
\* handler called with it answers 401 'Token is blacklisted' and changes
\* nothing that is stored.
C18_BlacklistedTokenChangesNothing ==
    [][(last'.op # "logout" /\ WithBlacklistedToken(last')) =>
          /\ last'.status = 401
          /\ last'.detail = "Token is blacklisted"
          /\ UNCHANGED <<users, photos, tags, comments>>]_vars

(***************************************************************************)
(* Image transformation: services.photos.transform_image                   *)
(***************************************************************************)

\* One directive of the transformation list handed to Cloudinary.
Directive(name, height, width, value) ==
    [name |-> name, height |-> height, width |-> width, value |-> value]

\* transform_image, lines 33-37.
CircleDirectives(circle) ==
    IF circle.use_filter /\ circle.height # 0 /\ circle.width # 0
    THEN << Directive("thumb", circle.height, circle.width, "face"),
            Directive("radius", 0, 0, "max") >>
    ELSE << >>

\* transform_image, lines 40-48: the last assignment wins.
EffectName(effect) ==
    IF effect.cartoonify THEN "cartoonify"
    ELSE IF effect.blur THEN "blur:300"
    ELSE IF effect.art_zorro THEN "art:zorro"
    ELSE IF effect.art_audrey THEN "art:audrey"
    ELSE ""

\* transform_image, lines 39-50.
EffectDirectives(effect) ==
    IF effect.use_filter /\ EffectName(effect) # ""
    THEN << Directive("effect", 0, 0, EffectName(effect)) >>
    ELSE << >>

\* transform_image, lines 53-57: fill is assigned after crop.
CropMode(resize) ==
    IF resize.fill THEN "fill" ELSE IF resize.crop THEN "crop" ELSE ""

\* transform_image, lines 52-61. Line 52 reads
\* `body.resize.use_filter and body.resize.height and body.resize.height`:
\* the height twice, the width not at all.
ResizeDirectives(resize) ==
    IF resize.use_filter /\ resize.height # 0 /\ resize.height # 0
       /\ CropMode(resize) # ""
    THEN << Directive("resize", resize.height, resize.width, CropMode(resize)) >>
    ELSE << >>

\* transform_image, lines 63-69.
TextDirectives(text) ==
    IF text.use_filter /\ text.font_size # 0 /\ text.text # ""
    THEN << Directive("overlay", text.font_size, 0, text.text),
            Directive("layer_apply", 0, 0, "south") >>
    ELSE << >>

\* transform_image, lines 70-74.
RotateDirectives(rotate) ==
    IF rotate.use_filter /\ rotate.width # 0 /\ rotate.degree # 0
    THEN << Directive("scale", 0, rotate.width, ""),
            Directive("angle", 0, 0, "vflip"),
            Directive("angle", rotate.degree, 0, "") >>
    ELSE << >>

\* transform_image, lines 31-74: the list `transformation`.
Transformation(body) ==
    CircleDirectives(body.circle) \o EffectDirectives(body.effect)
        \o ResizeDirectives(body.resize) \o TextDirectives(body.text)
        \o RotateDirectives(body.rotate)

\* PATCH /photos/transformation/{photo_id}: services.photos.transform_image.
\* The URL stored in image_transform is built from the list, which stands
\* for it here.
photo_transformation(token, p, body) ==
    /\ token \in AccessTokens
    /\ get_current_user(token) # NoId
    /\ LET args == <<token, p, body>>
       IN  IF is_token_blacklisted(token)
           THEN /\ last' = TokenIsBlacklisted("photo_transformation", args)
                /\ UNCHANGED photos
           ELSE IF ~(p \in StoredPhotos /\ OwnedBy(get_current_user(token), p))
           THEN /\ last' = Reply("photo_transformation", args, "None", 404,
                                 "Image not found")
                /\ UNCHANGED photos
           ELSE IF Transformation(body) = << >>
           THEN /\ last' = Reply("photo_transformation", args, "Photo", 200,
                                 "You don't choose type transformation")
                /\ UNCHANGED photos
           ELSE /\ photos' = [photos EXCEPT
                       ![p].image_transform = Transformation(body)]
                /\ last' = ReplyWith("photo_transformation", args, p, 200)
    /\ UNCHANGED <<users, tags, has_liked, issued, comments, blacklist>>

\* The sections of TransformBodyModel a request may carry.
Circles ==
    { [use_filter |-> FALSE, height |-> 400, width |-> 400],
      [use_filter |-> TRUE, height |-> 400, width |-> 400],
      [use_filter |-> TRUE, height |-> 0, width |-> 400] }

Effects ==
    { [use_filter |-> FALSE, art_audrey |-> TRUE, art_zorro |-> FALSE,
       cartoonify |-> FALSE, blur |-> FALSE],
      [use_filter |-> TRUE, art_audrey |-> TRUE, art_zorro |-> TRUE,
       cartoonify |-> FALSE, blur |-> FALSE],
      [use_filter |-> TRUE, art_audrey |-> TRUE, art_zorro |-> TRUE,
       cartoonify |-> TRUE, blur |-> TRUE] }

Resizes ==
    { [use_filter |-> FALSE, crop |-> TRUE, fill |-> FALSE, height |-> 400, width |-> 400],
      [use_filter |-> TRUE, crop |-> TRUE, fill |-> TRUE, height |-> 400, width |-> 400],
      [use_filter |-> TRUE, crop |-> TRUE, fill |-> FALSE, height |-> 400, width |-> 0],
      [use_filter |-> TRUE, crop |-> FALSE, fill |-> FALSE, height |-> 400, width |-> 400] }

Texts ==
    { [use_filter |-> TRUE, font_size |-> 70, text |-> "hi"],
      [use_filter |-> TRUE, font_size |-> 70, text |-> ""] }

Rotates ==
    { [use_filter |-> FALSE, width |-> 400, degree |-> 45],
      [use_filter |-> TRUE, width |-> 400, degree |-> 45] }

TransformBodies ==
    [circle : Circles, effect : Effects, resize : Resizes, text : Texts,
     rotate : Rotates]

\* Two logged-in users; the first owns the one photo.
InitTransform ==
    /\ users = <<LoggedIn(EmailB, "bob", RoleAdmin, 1),
                 LoggedIn(EmailAB, "abby", RoleUser, 2)>>
    /\ photos = <<PhotoRow(2, "d1", <<>>, 1)>>
    /\ tags = << >>
    /\ has_liked = <<{}>>
    /\ issued = {users[u].refresh_token : u \in DOMAIN users}
    /\ comments = << >>
    /\ blacklist = {}
    /\ last = NoCall

NextTransform ==
    \E t \in AccessTokens, body \in TransformBodies : photo_transformation(t, 1, body)

SpecTransform == InitTransform /\ [][NextTransform]_vars

\* The section a directive belongs to.
SectionOf(directive) ==
    CASE directive.name \in {"thumb", "radius"} -> "circle"
      [] directive.name = "effect" -> "effect"
      [] directive.name = "resize" -> "resize"
      [] directive.name \in {"overlay", "layer_apply"} -> "text"
      [] OTHER -> "rotate"

ChosenIf(section, chosen) == IF chosen THEN {section} ELSE {}

\* The sections of a request whose use_filter is set and whose parameters
\* are all non-zero and non-empty.
SectionsChosen(body) ==
    ChosenIf("circle", /\ body.circle.use_filter
                       /\ body.circle.height # 0
                       /\ body.circle.width # 0)
    \cup ChosenIf("effect", /\ body.effect.use_filter
                            /\ \/ body.effect.art_audrey
                               \/ body.effect.art_zorro
                               \/ body.effect.blur
                               \/ body.effect.cartoonify)
    \cup ChosenIf("resize", /\ body.resize.use_filter
                            /\ body.resize.height # 0
                            /\ body.resize.width # 0
                            /\ body.resize.crop \/ body.resize.fill)
    \cup ChosenIf("text", /\ body.text.use_filter
                          /\ body.text.font_size # 0
                          /\ body.text.text # "")
    \cup ChosenIf("rotate", /\ body.rotate.use_filter
                            /\ body.rotate.width # 0
                            /\ body.rotate.degree # 0)

\* The place of a section in the fixed order.
SectionRank(section) ==
    CASE section = "circle" -> 1
      [] section = "effect" -> 2
      [] section = "resize" -> 3
      [] section = "text" -> 4
      [] OTHER -> 5

\* C19: transform_image builds the chain from the sections in the order
\* circle, effect, resize, text, rotate, with the directives of exactly the
\* sections whose use_filter is set and whose parameters are non-zero and
\* non-empty, at most one effect directive (cartoonify over blur over
\* art_zorro over art_audrey) and at most one resize directive (fill over
\* crop). When no section is chosen the photo's image_transform is left as it
\* was; for a photo that is not the caller's the answer is 404 and no photo
\* changes.
C19_ChainFromChosenSections ==
    [][(last'.op = "photo_transformation" /\ last'.status # 401) =>
          LET p == last'.args[2]
              body == last'.args[3]
              chain == photos'[p].image_transform
          IN  IF ~(p \in StoredPhotos /\ photos[p].user_id = Caller(last'))
              THEN last'.status = 404 /\ photos' = photos
              ELSE IF SectionsChosen(body) = {}
              THEN photos' = photos
              ELSE /\ photos' = [photos EXCEPT ![p].image_transform = chain]
                   /\ {SectionOf(chain[i]) : i \in DOMAIN chain} = SectionsChosen(body)
                   /\ \A i, j \in DOMAIN chain :
                         i < j => SectionRank(SectionOf(chain[i]))
                                     <= SectionRank(SectionOf(chain[j]))
                   /\ Cardinality({i \in DOMAIN chain : chain[i].name = "effect"}) <= 1
                   /\ Cardinality({i \in DOMAIN chain : chain[i].name = "resize"}) <= 1
                   /\ \A i \in DOMAIN chain :
                         /\ chain[i].name = "effect" =>
                               chain[i].value =
                                   IF body.effect.cartoonify THEN "cartoonify"
                                   ELSE IF body.effect.blur THEN "blur:300"
                                   ELSE IF body.effect.art_zorro THEN "art:zorro"
                                   ELSE "art:audrey"
                         /\ chain[i].name = "resize" =>
                               chain[i].value =
                                   IF body.resize.fill THEN "fill" ELSE "crop"]_vars

(***************************************************************************)
(* Created users: users.create_user                                        *)
(***************************************************************************)

\* The cap on the rows create_user stores.
MaxCreated == 3

\* A role key that the request body does not carry.
NoRole == "absent"

\* The JSON body of a sign-up request; a client may add a "roles" key.
SignupRequest(username, email, password, roles) ==
    [username |-> username, email |-> email, password |-> password,
     roles |-> roles]

\* schemas.UserModel: username, email and password are its only fields and
\* pydantic leaves out every other key of the body.
UserModel(request) ==
    [username |-> request.username, email |-> request.email,
     password |-> request.password]

\* users.create_user(body, db): User(**body.dict()), the role from the count
\* of the rows, then add and commit; the commit of an e-mail that is stored
\* already raises IntegrityError.
create_user(request) ==
    /\ LET body == UserModel(request)
           new_user == UserRow(body.email, body.username, body.password,
                               FirstRole(users))
       IN  IF EmailUniqueViolation(Append(users, new_user))
           THEN /\ last' = Crash("create_user", request)
                /\ UNCHANGED users
           ELSE /\ Len(users) < MaxCreated
                /\ users' = Append(users, new_user)
                /\ last' = ReplyWith("create_user", request, Len(users) + 1, 200)
    /\ UNCHANGED <<photos, tags, has_liked, issued, comments, blacklist>>

\* The bodies sent: every e-mail, with and without a role; the password is
\* the hash that signup puts in its place (routes/auth.py, line 32).
SignupRequests ==
    {SignupRequest("name1", e, get_password_hash("pw1"), r) :
        e \in Emails, r \in Roles \cup {NoRole}}

NextCreateUser == \E request \in SignupRequests : create_user(request)

\* The empty users table.
SpecCreateUser == InitAuth /\ [][NextCreateUser]_vars

\* C21: in a run of create_user from the empty users table the first user
\* created has the role Administrator and every later one the role User,
\* whatever role the request names.
C21_FirstUserIsAdministrator ==
    \A u \in DOMAIN users :
        users[u].roles = IF u = 1 THEN RoleAdmin ELSE RoleUser

\* A later request naming the role Administrator was stored as a User.
C21_RequestedRoleIgnored ==
    /\ Len(users) >= 2
    /\ last.op = "create_user"
    /\ last.result = "value"
    /\ last.value = Len(users)
    /\ last.args.roles = RoleAdmin
    /\ users[last.value].roles = RoleUser
    /\ users[1].roles = RoleAdmin

(***************************************************************************)
(* Tag rows: tags.update_tag and tags.remove_tag                           *)
(***************************************************************************)

\* tags.update_tag, line 95, and remove_tag, line 115: the test of what
\* db.query(Tag).filter(Tag.id == tag_id).first() found.
TagFound(tag_id) == tag_id \in StoredTagRows(tags)

\* tags.update_tag, line 96: tag.title = body.title.
TagRenamed(tag_id, title) == [tags EXCEPT ![tag_id].title = title]

\* tags.remove_tag, line 116: db.delete(tag).
TagDeleted(tag_id) == [tags EXCEPT ![tag_id] = DeletedTag]

\* The photo_2_tag rows of a deleted tag go with it (models.py line 35,
\* ondelete CASCADE).
WithoutTag(table, tag_id) ==
    [p \in DOMAIN table |->
        [table[p] EXCEPT !.tags = SelectSeq(@, LAMBDA t : t # tag_id)]]

\* tags.update_tag(tag_id, body, db): the commit of a title another row has
\* raises IntegrityError, and nothing is stored.
repository_update_tag(tag_id, title) ==
    /\ IF ~TagFound(tag_id)
       THEN /\ last' = Returned("repository.update_tag", <<tag_id, title>>, NoId)
            /\ UNCHANGED tags
       ELSE IF UniqueViolation(TagRenamed(tag_id, title))
       THEN /\ last' = Crash("repository.update_tag", <<tag_id, title>>)
            /\ UNCHANGED tags
       ELSE /\ tags' = TagRenamed(tag_id, title)
            /\ last' = Returned("repository.update_tag", <<tag_id, title>>, tag_id)
    /\ UNCHANGED <<users, photos, has_liked, issued, comments, blacklist>>

\* tags.remove_tag(tag_id, db).
repository_remove_tag(tag_id) ==
    /\ IF ~TagFound(tag_id)
       THEN /\ last' = Returned("repository.remove_tag", <<tag_id>>, NoId)
            /\ UNCHANGED <<tags, photos>>
       ELSE /\ tags' = TagDeleted(tag_id)
            /\ photos' = WithoutTag(photos, tag_id)
            /\ last' = Returned("repository.remove_tag", <<tag_id>>, tag_id)
    /\ UNCHANGED <<users, has_liked, issued, comments, blacklist>>

\* The cap on the rows of tags.
MaxTags == 3

\* The ids asked for: every row there can be, and one past the last.
RequestedTags == 1..(MaxTags + 1)

\* The titles sent in TagBase.
TagRowTitles == {TitleA, TitleB, TitleC}

NextTagRows ==
    \/ \E t \in TagRowTitles : Len(tags) < MaxTags /\ create_tag(1, t)
    \/ \E id \in RequestedTags, t \in TagRowTitles : repository_update_tag(id, t)
    \/ \E id \in RequestedTags : repository_remove_tag(id)
    \/ \E f \in {<<FormAB>>} :
           Len(tags) + Len(TagTitles(f[1])) <= MaxTags /\ create_user_photo(1, "d1", f)

\* One signed-up user, no photos and no tags.
SpecTagRows == InitTags /\ [][NextTagRows]_vars

\* C22: update_tag keeps the titles of tags unique: whatever update_tag,
\* remove_tag and create_tag do, no two stored tags have the same title; and
\* update_tag and remove_tag called with an id no stored tag has return None
\* and leave every table as it was.
C22_UpdateTagKeepsTitlesUnique ==
    [][/\ \A i, j \in StoredTagRows(tags') :
              tags'[i].title = tags'[j].title => i = j
       /\ \A id \in RequestedTags \ StoredTagRows(tags) :
              /\ \A t \in TagRowTitles :
                     repository_update_tag(id, t) =>
                         /\ last'.result = None
                         /\ <<tags', photos'>> = <<tags, photos>>
              /\ repository_remove_tag(id) =>
                     /\ last'.result = None
                     /\ <<tags', photos'>> = <<tags, photos>>]_vars

\* A stored tag was to be renamed to the title of another stored tag: the
\* call raised and both rows are as they were. Before that a removed tag's
\* id was asked for again.
C22_RenameToTakenTitleRefused ==
    /\ last.op = "repository.update_tag"
    /\ last.result = "exception"
    /\ last.args[1] \in StoredTagRows(tags)
    /\ \E j \in StoredTagRows(tags) \ {last.args[1]} :
           tags[j].title = last.args[2]
    /\ tags[last.args[1]].title # last.args[2]
    /\ \E k \in DOMAIN tags : tags[k] = DeletedTag

(***************************************************************************)
(* The like counter and the who_liked text                                 *)
(***************************************************************************)

\* The comma-terminated entries of who_liked, in order: the pieces that end
\* at a comma (what follows the last comma is no entry).
Entries(who_liked) ==
    SubSeq(Split(who_liked, ","), 1, Len(Split(who_liked, ",")) - 1)

\* C23: from likes = 0 and who_liked = "", after any calls of put_a_like,
\* dislike and delete_like_admin_moder, likes is the number of
\* comma-terminated entries of who_liked and every entry is the whole e-mail
\* of a user whose like was accepted and not taken back.
C23_LikesCountEntries ==
    \A p \in StoredPhotos :
        /\ photos[p].likes = Len(Entries(photos[p].who_liked))
        /\ \A i \in DOMAIN Entries(photos[p].who_liked) :
               Entries(photos[p].who_liked)[i] \in LikerEmails(p)

\* C24: from likes = 0 and who_liked = "", no calls of put_a_like, dislike
\* and delete_like_admin_moder make likes negative.
C24_LikesNeverNegative ==
    \A p \in StoredPhotos : photos[p].likes >= 0

(***************************************************************************)
(* Likes of a user whose e-mail changes                                    *)
(***************************************************************************)

\* PATCH /users/remove_like called with an access token (routes/users.py,
\* lines 87-105).
remove_like_request(token, p) ==
    /\ token \in AccessTokens
    /\ get_current_user(token) # NoId
    /\ remove_like(get_current_user(token), p)

\* An e-mail address no user starts with; none of b@x, c@x and d@x is a
\* substring of another.
EmailD == <<"d", "@", "x">>

\* The administrator and one plain user, both logged in, and one photo
\* nobody has liked yet.
InitLikesByAccount ==
    /\ users = <<LoggedIn(EmailB, "bob", RoleAdmin, 1),
                 LoggedIn(EmailC, "carl", RoleUser, 2)>>
    /\ photos = <<PhotoRow(1, "d1", <<>>, 1)>>
    /\ tags = << >>
    /\ has_liked = <<{}>>
    /\ issued = {users[u].refresh_token : u \in DOMAIN users}
    /\ comments = << >>
    /\ blacklist = {}
    /\ last = NoCall

NextLikesByAccount ==
    \/ \E e \in {EmailB, EmailC, EmailD} : login(e, "pw1")
    \/ \E t \in AccessTokens : put_like_request(t, 1)
    \/ \E t \in AccessTokens : remove_like_request(t, 1)
    \/ \E t \in AccessTokens, e \in {EmailC, EmailD} :
           edit_user_profile(t, e, "name", "pw1")
    \/ \E t \in AccessTokens, e \in {EmailC, EmailD}, n \in {EmailC, EmailD} :
           patch_user_profile(t, e, n, None, None)

SpecLikesByAccount == InitLikesByAccount /\ [][NextLikesByAccount]_vars

\* C25: a user account has at most one like on a photo, also when its e-mail
\* is changed by edit_user_profile or patch_user_profile: a like by a user
\* whose like was accepted and not taken back is refused and changes
\* nothing, and that user's dislike is accepted and takes one like off.
C25_OneLikePerAccount ==
    [][\A t \in AccessTokens, p \in StoredPhotos :
          /\ (put_like_request(t, p) /\ get_current_user(t) \in has_liked[p]) =>
                 /\ last'.result = "NOT OK"
                 /\ photos' = photos
          /\ (remove_like_request(t, p) /\ get_current_user(t) \in has_liked[p]) =>
                 /\ last'.result = "OK"
                 /\ photos'[p].likes = photos[p].likes - 1]_vars

(***************************************************************************)
(* The whole service, from the empty database                              *)
(***************************************************************************)

Init == InitAuth

Next ==
    \/ NextAuth \/ NextTags \/ NextLikes \/ NextSearch
    \/ NextProfiles \/ NextPhotos \/ NextComments \/ NextTransform
    \/ NextCreateUser \/ NextTagRows \/ NextLikesByAccount

Spec == Init /\ [][Next]_vars

=============================================================================
